---- MODULE Spec2Model ----
(***************************************************************************)
(* A model of scripts/deploy/yaml_log.py: the YAML inspector that locates  *)
(* a project root, discovers the .yaml/.yml files beneath it, flattens     *)
(* each parsed document and prints one table per file with display-width   *)
(* aware truncation.                                                        *)
(*                                                                         *)
(* Strings are sequences of one-character strings, so that joining,        *)
(* suffix matching, truncation and comparison are computed and not assumed.*)
(***************************************************************************)
EXTENDS Integers, Sequences, FiniteSets, TLC

VARIABLES
    t_pc, s, max_width, out, out2,          \* truncate_display applied once and twice
    f_pc, obj, stack, yielded, pushed, popped,  \* one run of the flatten generator
    r_pc, loaded, rows,                     \* read_yaml + tabulate_file on one document
    g_pc, cwd, marker, root,                \* find_project_root
    m_pc, tree, files, idx, log, stdout, exit_status   \* main

tvars == <<t_pc, s, max_width, out, out2>>
fvars == <<f_pc, obj, stack, yielded, pushed, popped>>
rvars == <<r_pc, loaded, rows>>
gvars == <<g_pc, cwd, marker, root>>
mvars == <<m_pc, tree, files, idx, log, stdout, exit_status>>
vars == <<tvars, fvars, rvars, gvars, mvars>>

(***************************************************************************)
(* Bounds of the model.                                                    *)
(***************************************************************************)
MaxLen == 4          \* longest enumerated string handed to truncate_display
MaxBudget == 6       \* largest enumerated non-default max_width

(***************************************************************************)
(* Characters and their terminal widths (the wcwidth table).               *)
(* "E" stands for a wide glyph such as an emoji (2 columns), "Z" for a     *)
(* zero-width/combining code point (0 columns), "C" for a control          *)
(* character (wcwidth reports -1); every other character is 1 column.      *)
(***************************************************************************)
wcwidth(ch) ==
    CASE ch = "E" -> 2
      [] ch = "Z" -> 0
      [] ch = "C" -> 0 - 1
      [] OTHER -> 1

RECURSIVE SumWidth(_)
SumWidth(str) ==
    IF str = <<>> THEN 0 ELSE wcwidth(Head(str)) + SumWidth(Tail(str))

\* wcswidth: -1 as soon as one character is not printable, else the sum.
wcswidth(str) ==
    IF \E i \in 1..Len(str) : wcwidth(str[i]) < 0
    THEN 0 - 1
    ELSE SumWidth(str)

MAX_VALUE_WIDTH == 60

Ellipsis == <<".", ".", ".">>

\* variant: the loop counts characters instead of display columns
RECURSIVE TruncLoopChars(_, _, _, _, _)
TruncLoopChars(str, mw, i, o, width) ==
    IF i > Len(str)
    THEN o
    ELSE LET ch == str[i]
             w == wcswidth(<<ch>>)
         IN  IF width + 1 > mw - 3
             THEN o \o Ellipsis
             ELSE TruncLoopChars(str, mw, i + 1, o \o <<ch>>, width + 1)

\* The for loop of truncate_display, from character i on.
RECURSIVE TruncLoop(_, _, _, _, _)
TruncLoop(str, mw, i, o, width) ==
    IF i > Len(str)
    THEN o
    ELSE LET ch == str[i]
             w == wcswidth(<<ch>>)
         IN  IF width + w > mw - 3
             THEN o \o Ellipsis
             ELSE TruncLoop(str, mw, i + 1, o \o <<ch>>, width + w)

\* variant: the fit test is strict
truncate_display_strict(str, mw) ==
    IF wcswidth(str) < mw
    THEN str
    ELSE TruncLoop(str, mw, 1, <<>>, 0)

truncate_display(str, mw) ==
    IF wcswidth(str) <= mw
    THEN str
    ELSE TruncLoop(str, mw, 1, <<>>, 0)

(***************************************************************************)
(* Inputs of truncate_display.                                             *)
(***************************************************************************)
TruncChars == {"a", ".", "E", "Z", "C"}

RECURSIVE StrsUpTo(_, _)
StrsUpTo(chars, n) ==
    IF n = 0
    THEN {<<>>}
    ELSE LET shorter == StrsUpTo(chars, n - 1)
         IN  shorter \cup {<<c>> \o t : c \in chars, t \in {u \in shorter : Len(u) = n - 1}}

RECURSIVE Repeat(_, _)
Repeat(ch, n) == IF n = 0 THEN <<>> ELSE <<ch>> \o Repeat(ch, n - 1)

ShortStrs == StrsUpTo(TruncChars, MaxLen)
\* strings around the default budget of 60 columns
LongStrs == {Repeat("a", n) \o t : n \in {MAX_VALUE_WIDTH - 4, MAX_VALUE_WIDTH - 3},
                                   t \in ShortStrs}
Budgets == 0..MaxBudget

Truncate ==
    /\ t_pc = "start"
    /\ out' = truncate_display(s, max_width)
    /\ t_pc' = "once"
    /\ UNCHANGED <<s, max_width, out2, fvars, rvars, gvars, mvars>>

TruncateAgain ==
    /\ t_pc = "once"
    /\ out2' = truncate_display(out, max_width)
    /\ t_pc' = "twice"
    /\ UNCHANGED <<s, max_width, out, fvars, rvars, gvars, mvars>>


(***************************************************************************)
(* Document trees: what the parser returns.  Every node is a record of the *)
(* same shape; `kind` tells mappings, sequences and scalars apart, `type`  *)
(* is the Python type name.  A mapping keeps its keys in insertion order   *)
(* in `keys`, aligned with `items`.                                        *)
(***************************************************************************)
MaxNodes == 4        \* most nodes in an enumerated document tree

Scalar(ty, n, str) ==
    [kind |-> "scalar", type |-> ty, num |-> n, text |-> str, keys |-> <<>>, items |-> <<>>]
StrScalar(str) == Scalar("str", 0, str)
IntScalar(n) == Scalar("int", n, <<>>)
BoolScalar(b) == Scalar("bool", IF b THEN 1 ELSE 0, <<>>)
NoneScalar == Scalar("NoneType", 0, <<>>)
Dict(ks, its) ==
    [kind |-> "dict", type |-> "dict", num |-> 0, text |-> <<>>, keys |-> ks, items |-> its]
List(its) ==
    [kind |-> "list", type |-> "list", num |-> 0, text |-> <<>>, keys |-> <<>>, items |-> its]

\* isinstance(node, dict) / isinstance(node, list)
IsDict(node) == node.kind = "dict"
IsList(node) == node.kind = "list"

\* Path segments: a mapping key or a sequence index.
KeySeg(k) == [seg |-> "key", key |-> k, index |-> 0]
IndexSeg(i) == [seg |-> "index", key |-> <<>>, index |-> i]

Keys == {<<"a">>, <<"b">>}
LeafScalars == {StrScalar(<<"x">>), IntScalar(0), NoneScalar}

\* injective key sequences of length m (keys are unique within a mapping)
RECURSIVE KeySeqs(_, _)
KeySeqs(avail, m) ==
    IF m = 0
    THEN {<<>>}
    ELSE UNION {{<<k>> \o r : r \in KeySeqs(avail \ {k}, m - 1)} : k \in avail}

RECURSIVE TreesOfSize(_)
RECURSIVE ForestsOfSize(_)
ForestsOfSize(n) ==
    IF n = 0
    THEN {<<>>}
    ELSE UNION {{<<t>> \o f : t \in TreesOfSize(k), f \in ForestsOfSize(n - k)} : k \in 1..n}
TreesOfSize(n) ==
    LET forests == ForestsOfSize(n - 1)
    IN  (IF n = 1 THEN LeafScalars ELSE {})
        \cup {List(f) : f \in forests}
        \cup UNION {{Dict(ks, f) : ks \in KeySeqs(Keys, Len(f))} : f \in forests}

Trees == UNION {TreesOfSize(n) : n \in 1..MaxNodes}

(***************************************************************************)
(* flatten: the explicit work-list traversal.                              *)
(***************************************************************************)
Frame(node, pth) == [node |-> node, pth |-> pth]

Top(stk) == stk[Len(stk)]
Pop(stk) == SubSeq(stk, 1, Len(stk) - 1)

\* variant: the last item of a container is not pushed
ChildrenShort(node, pth) ==
    IF IsDict(node)
    THEN [i \in 1..(Len(node.items) - 1) |-> Frame(node.items[i], pth \o <<KeySeg(node.keys[i])>>)]
    ELSE [i \in 1..(Len(node.items) - 1) |-> Frame(node.items[i], pth \o <<IndexSeg(i - 1)>>)]
\* variant: the items are pushed last to first
ChildrenReversed(node, pth) ==
    LET n == Len(node.items)
    IN  IF IsDict(node)
        THEN [i \in 1..n |-> Frame(node.items[n + 1 - i], pth \o <<KeySeg(node.keys[n + 1 - i])>>)]
        ELSE [i \in 1..n |-> Frame(node.items[n + 1 - i], pth \o <<IndexSeg(n - i)>>)]
\* variant: every item is pushed twice
ChildrenTwice(node, pth) ==
    IF IsDict(node)
    THEN [i \in 1..(2 * Len(node.items)) |->
            Frame(node.items[(i + 1) \div 2], pth \o <<KeySeg(node.keys[(i + 1) \div 2])>>)]
    ELSE [i \in 1..(2 * Len(node.items)) |->
            Frame(node.items[(i + 1) \div 2], pth \o <<IndexSeg(((i + 1) \div 2) - 1)>>)]
\* The frames pushed for a container, in the order they are appended.
Children(node, pth) ==
    IF IsDict(node)
    THEN [i \in 1..Len(node.items) |-> Frame(node.items[i], pth \o <<KeySeg(node.keys[i])>>)]
    ELSE [i \in 1..Len(node.items) |-> Frame(node.items[i], pth \o <<IndexSeg(i - 1)>>)]

IsContainer(node) == IsDict(node) \/ IsList(node)

\* One iteration of `while stack:` as a function of (stack, entries so far).
StackAfter(stk) ==
    LET top == Top(stk)
    IN  IF IsContainer(top.node)
        THEN Pop(stk) \o Children(top.node, top.pth)
        ELSE Pop(stk)
YieldedAfter(stk, acc) ==
    LET top == Top(stk)
    IN  IF IsContainer(top.node) THEN acc ELSE Append(acc, [pth |-> top.pth, value |-> top.node])

RECURSIVE FlattenLoop(_, _)
FlattenLoop(stk, acc) ==
    IF stk = <<>> THEN acc ELSE FlattenLoop(StackAfter(stk), YieldedAfter(stk, acc))

\* list(flatten(o)) with the default path
flatten(o) == FlattenLoop(<<Frame(o, <<>>)>>, <<>>)

\* stack = [(obj, path or [])]
FlattenCall ==
    /\ f_pc = "call"
    /\ stack' = <<Frame(obj, <<>>)>>
    /\ pushed' = <<<<>>>>
    /\ f_pc' = "loop"
    /\ UNCHANGED <<obj, yielded, popped, tvars, rvars, gvars, mvars>>

\* pop a mapping or a sequence and push its children
FlattenDescend ==
    /\ f_pc = "loop"
    /\ stack # <<>>
    /\ IsContainer(Top(stack).node)
    /\ stack' = StackAfter(stack)
    /\ yielded' = YieldedAfter(stack, yielded)
    /\ popped' = Append(popped, Top(stack).pth)
    /\ pushed' = pushed \o [i \in 1..(Len(stack') - Len(stack) + 1) |-> stack'[Len(stack) - 1 + i].pth]
    /\ UNCHANGED <<f_pc, obj, tvars, rvars, gvars, mvars>>

\* pop a leaf and yield it
FlattenYield ==
    /\ f_pc = "loop"
    /\ stack # <<>>
    /\ ~IsContainer(Top(stack).node)
    /\ stack' = StackAfter(stack)
    /\ yielded' = YieldedAfter(stack, yielded)
    /\ popped' = Append(popped, Top(stack).pth)
    /\ UNCHANGED <<f_pc, obj, pushed, tvars, rvars, gvars, mvars>>

\* the work-list is empty: the generator is exhausted
FlattenReturn ==
    /\ f_pc = "loop"
    /\ stack = <<>>
    /\ f_pc' = "done"
    /\ UNCHANGED <<obj, stack, yielded, pushed, popped, tvars, rvars, gvars, mvars>>


(***************************************************************************)
(* read_yaml and the rows of tabulate_file.                                *)
(***************************************************************************)
\* what yaml_loader.load raises on a malformed document
YAMLError ==
    [kind |-> "error", type |-> "YAMLError", num |-> 0, text |-> <<>>, keys |-> <<>>, items |-> <<>>]

\* Python truth value of a loaded document
Truthy(node) ==
    CASE node.kind = "dict" -> node.items # <<>>
      [] node.kind = "list" -> node.items # <<>>
      [] node.type = "str" -> node.text # <<>>
      [] node.type = "int" -> node.num # 0
      [] node.type = "bool" -> node.num = 1
      [] OTHER -> FALSE

EmptyDict == Dict(<<>>, <<>>)

\* `yaml_loader.load(f) or {}`
read_yaml(ld) == IF Truthy(ld) THEN ld ELSE EmptyDict

Digits == <<"0", "1", "2", "3", "4", "5", "6", "7", "8", "9">>

\* str(n) for a non-negative integer
RECURSIVE IntStr(_)
IntStr(n) == IF n < 10 THEN <<Digits[n + 1]>> ELSE IntStr(n \div 10) \o <<Digits[(n % 10) + 1]>>

\* str(value) of a leaf
StrOf(node) ==
    CASE node.type = "str" -> node.text
      [] node.type = "int" -> IntStr(node.num)
      [] node.type = "bool" -> IF node.num = 1 THEN <<"T", "r", "u", "e">>
                                               ELSE <<"F", "a", "l", "s", "e">>
      [] OTHER -> <<"N", "o", "n", "e">>

\* str(e) of a path element
SegStr(e) == IF e.seg = "key" THEN e.key ELSE IntStr(e.index)

\* sep.join(parts)
RECURSIVE Join(_, _)
Join(parts, sep) ==
    IF parts = <<>> THEN <<>>
    ELSE IF Len(parts) = 1 THEN parts[1]
    ELSE parts[1] \o sep \o Join(Tail(parts), sep)

RootLiteral == <<"(", "r", "o", "o", "t", ")">>

\* ".".join(str(e) for e in key_path) or "(root)"
KeyStr(key_path) ==
    LET joined == Join([i \in 1..Len(key_path) |-> SegStr(key_path[i])], <<".">>)
    IN  IF joined = <<>> THEN RootLiteral ELSE joined

\* the rows tabulate_file builds for the loaded data of one file
ReportRows(data, name, location) ==
    LET found == flatten(data)
    IN  [i \in 1..Len(found) |->
            [file |-> name,
             location |-> location,
             key_path |-> KeyStr(found[i].pth),
             value |-> truncate_display(StrOf(found[i].value), MAX_VALUE_WIDTH),
             type |-> found[i].value.type]]

RootScalars ==
    LeafScalars \cup {StrScalar(<<>>), StrScalar(<<"E", "x">>), IntScalar(3), IntScalar(12),
                      BoolScalar(TRUE), BoolScalar(FALSE)}
Loadable == Trees \cup RootScalars \cup {YAMLError}

ReportName == <<"a", ".", "y", "m", "l">>

\* read_yaml succeeds; the rows are built and the table is printed
TabulateFile ==
    /\ r_pc = "start"
    /\ loaded # YAMLError
    /\ rows' = ReportRows(read_yaml(loaded), ReportName, ReportName)
    /\ r_pc' = "printed"
    /\ UNCHANGED <<loaded, tvars, fvars, gvars, mvars>>

\* read_yaml catches YAMLError and exits
TabulateFileExit ==
    /\ r_pc = "start"
    /\ loaded = YAMLError
    /\ r_pc' = "exit"
    /\ UNCHANGED <<loaded, rows, tvars, fvars, gvars, mvars>>

(***************************************************************************)
(* The file system.  A path is the sequence of its parts below "/", every  *)
(* part a string; `marker` tells, for each directory, whether it holds an  *)
(* entry named by the marker and of which kind.                            *)
(***************************************************************************)
MaxDepth == 2        \* deepest directory the root locator is started from
MaxMarkers == 2      \* most directories that hold an entry named by the marker

DirNames == {<<"p">>, <<"q">>}

RECURSIVE DirsUpTo(_)
DirsUpTo(n) ==
    IF n = 0
    THEN {<<>>}
    ELSE LET above == DirsUpTo(n - 1)
         IN  above \cup {d \o <<x>> : d \in {e \in above : Len(e) = n - 1}, x \in DirNames}

Dirs == DirsUpTo(MaxDepth)

MarkerKinds == {"file", "dir"}

\* the marker entries of a file system: at most MaxMarkers directories hold one
MarkerMaps(dirs, most) ==
    UNION {[holders -> MarkerKinds] : holders \in {h \in SUBSET dirs : Cardinality(h) <= most}}

\* variant: exists() in place of is_file()
is_file_exists(mk, d) == d \in DOMAIN mk
\* (d / marker).is_file()
is_file(mk, d) == d \in DOMAIN mk /\ mk[d] = "file"

\* variant: the candidates from "/" down to the start
ParentsOutermostFirst(start) == [i \in 1..(Len(start) + 1) |-> SubSeq(start, 1, i - 1)]
\* (start, *start.parents): the start first, then each parent up to "/"
Parents(start) == [i \in 1..(Len(start) + 1) |-> SubSeq(start, 1, Len(start) + 1 - i)]

NotFound == [found |-> FALSE, dir |-> <<>>]

\* the for loop of find_project_root, from candidate i on
RECURSIVE FindFrom(_, _, _)
FindFrom(mk, cands, i) ==
    IF i > Len(cands)
    THEN NotFound
    ELSE IF is_file(mk, cands[i])
         THEN [found |-> TRUE, dir |-> cands[i]]
         ELSE FindFrom(mk, cands, i + 1)

find_project_root(mk, start) == FindFrom(mk, Parents(start), 1)

\* find_project_root returns a directory
FindProjectRoot ==
    /\ g_pc = "start"
    /\ find_project_root(marker, cwd).found
    /\ root' = find_project_root(marker, cwd).dir
    /\ g_pc' = "found"
    /\ UNCHANGED <<cwd, marker, tvars, fvars, rvars, mvars>>

\* find_project_root calls sys.exit
FindProjectRootExit ==
    /\ g_pc = "start"
    /\ ~find_project_root(marker, cwd).found
    /\ g_pc' = "exit"
    /\ UNCHANGED <<cwd, marker, root, tvars, fvars, rvars, mvars>>

(***************************************************************************)
(* Discovery and the main loop.                                            *)
(***************************************************************************)
MaxFiles == 2        \* most entries with a file name in the file system of a run

MainDirs == {<<>>, <<<<"p">>>>, <<<<"p">>, <<"q">>>>}
FileNames ==
    {<<"b", ".", "y", "a", "m", "l">>, <<"a", ".", "y", "m", "l">>,
     <<"a", ".", "t", "x", "t">>, <<"c", ".", "Y", "M", "L">>}
Slots == {d \o <<n>> : d \in MainDirs, n \in FileNames}

SampleDoc == Dict(<<<<"a">>>>, <<StrScalar(<<"x">>)>>)

\* what sits at a path: a file that parses, a file that does not, a directory
GoodFile == [kind |-> "file", content |-> SampleDoc]
BadFile == [kind |-> "file", content |-> YAMLError]
Directory == [kind |-> "dir", content |-> NoneScalar]
EntryStates == {GoodFile, BadFile, Directory}

FileTrees ==
    UNION {[paths -> EntryStates] : paths \in {q \in SUBSET Slots : Cardinality(q) <= MaxFiles}}

IsPrefix(a, b) == Len(a) <= Len(b) /\ SubSeq(b, 1, Len(a)) = a

EndsWith(str, suffix) ==
    Len(str) >= Len(suffix) /\ SubSeq(str, Len(str) - Len(suffix) + 1, Len(str)) = suffix

YamlSuffix == <<".", "y", "a", "m", "l">>
YmlSuffix == <<".", "y", "m", "l">>

\* root.rglob("*" + suffix): every entry beneath root whose name ends in suffix
rglob(tr, rt, suffix) ==
    {q \in DOMAIN tr : IsPrefix(rt, q) /\ Len(q) > Len(rt) /\ EndsWith(q[Len(q)], suffix)}

\* find_yaml_files: the *.yaml scan, then the *.yml scan
find_yaml_files(yamls, ymls) == yamls \o ymls

\* the orders in which a scan may deliver a set of paths
Orderings(set) ==
    {sq \in [1..Cardinality(set) -> set] : \A i, j \in 1..Cardinality(set) : i # j => sq[i] # sq[j]}

\* code points, for the comparison of strings
Alphabet == <<".", "A", "L", "M", "Y", "a", "b", "c", "l", "m", "p", "q", "t", "x", "y">>
Ord(ch) == CHOOSE i \in 1..Len(Alphabet) : Alphabet[i] = ch

RECURSIVE StrLess(_, _)
StrLess(a, b) ==
    IF b = <<>> THEN FALSE
    ELSE IF a = <<>> THEN TRUE
    ELSE IF Ord(Head(a)) # Ord(Head(b)) THEN Ord(Head(a)) < Ord(Head(b))
    ELSE StrLess(Tail(a), Tail(b))

\* Path.__lt__: the parts compared in order
RECURSIVE PathLess(_, _)
PathLess(a, b) ==
    IF b = <<>> THEN FALSE
    ELSE IF a = <<>> THEN TRUE
    ELSE IF Head(a) # Head(b) THEN StrLess(Head(a), Head(b))
    ELSE PathLess(Tail(a), Tail(b))

\* insert x into an ascending sequence, after its equals
RECURSIVE Insert(_, _)
Insert(sq, x) ==
    IF sq = <<>> THEN <<x>>
    ELSE IF PathLess(x, Head(sq)) THEN <<x>> \o sq
    ELSE <<Head(sq)>> \o Insert(Tail(sq), x)

\* variant: the scan order is kept
unsorted(sq) == sq
\* sorted(...): ascending by PathLess
RECURSIVE sorted(_)
sorted(sq) == IF sq = <<>> THEN <<>> ELSE Insert(sorted(SubSeq(sq, 1, Len(sq) - 1)), sq[Len(sq)])

\* path.relative_to(project_root) and its str()
RelativeTo(q, rt) == SubSeq(q, Len(rt) + 1, Len(q))
PathStr(parts) == Join(parts, <<"/">>)

Opened(q) == [event |-> "open", path |-> q]
Printed(q) == [event |-> "print", path |-> q]

\* root = find_project_root() returns
MainRootFound ==
    /\ m_pc = "start"
    /\ find_project_root(marker, cwd).found
    /\ root' = find_project_root(marker, cwd).dir
    /\ m_pc' = "discover"
    /\ UNCHANGED <<g_pc, cwd, marker, tree, files, idx, log, stdout, exit_status,
                   tvars, fvars, rvars>>

\* find_project_root() exits: marker not found
MainRootMissing ==
    /\ m_pc = "start"
    /\ ~find_project_root(marker, cwd).found
    /\ m_pc' = "exited"
    /\ exit_status' = 1
    /\ UNCHANGED <<gvars, tree, files, idx, log, stdout, tvars, fvars, rvars>>

\* files = sorted(find_yaml_files(root)), and there are some
MainDiscover ==
    /\ m_pc = "discover"
    /\ \E ys \in Orderings(rglob(tree, root, YamlSuffix)),
          ms \in Orderings(rglob(tree, root, YmlSuffix)) :
            /\ find_yaml_files(ys, ms) # <<>>
            /\ files' = sorted(find_yaml_files(ys, ms))
    /\ idx' = 1
    /\ m_pc' = "loop"
    /\ UNCHANGED <<gvars, tree, log, stdout, exit_status, tvars, fvars, rvars>>

\* files is empty: sys.exit("No YAML files found under project root.")
MainNoFiles ==
    /\ m_pc = "discover"
    /\ rglob(tree, root, YamlSuffix) = {}
    /\ rglob(tree, root, YmlSuffix) = {}
    /\ m_pc' = "exited"
    /\ exit_status' = 1
    /\ UNCHANGED <<gvars, tree, files, idx, log, stdout, tvars, fvars, rvars>>

\* tabulate_file(yf, root) for a file that parses: rows, header, table
MainTabulate ==
    /\ m_pc = "loop"
    /\ idx <= Len(files)
    /\ tree[files[idx]].kind = "file"
    /\ tree[files[idx]].content # YAMLError
    /\ LET yf == files[idx]
           location == PathStr(RelativeTo(yf, root))
       IN  /\ stdout' = Append(stdout,
                 [header |-> location,
                  path |-> yf,
                  rows |-> ReportRows(read_yaml(tree[yf].content), yf[Len(yf)], location)])
           /\ log' = log \o <<Opened(yf), Printed(yf)>>
    /\ idx' = idx + 1
    /\ UNCHANGED <<gvars, m_pc, tree, files, exit_status, tvars, fvars, rvars>>

\* variant: a file that does not parse is skipped and the loop goes on
MainParseFailureSkips ==
    /\ m_pc = "loop"
    /\ idx <= Len(files)
    /\ tree[files[idx]].kind = "file"
    /\ tree[files[idx]].content = YAMLError
    /\ log' = Append(log, Opened(files[idx]))
    /\ idx' = idx + 1
    /\ UNCHANGED <<gvars, m_pc, tree, files, stdout, exit_status, tvars, fvars, rvars>>

\* the file is opened, read_yaml catches YAMLError and exits; nothing is printed
MainParseFailure ==
    /\ m_pc = "loop"
    /\ idx <= Len(files)
    /\ tree[files[idx]].kind = "file"
    /\ tree[files[idx]].content = YAMLError
    /\ log' = Append(log, Opened(files[idx]))
    /\ m_pc' = "exited"
    /\ exit_status' = 1
    /\ UNCHANGED <<gvars, tree, files, idx, stdout, tvars, fvars, rvars>>

\* path.open on a directory raises IsADirectoryError, which nothing catches
MainOpenDirectory ==
    /\ m_pc = "loop"
    /\ idx <= Len(files)
    /\ tree[files[idx]].kind = "dir"
    /\ m_pc' = "exited"
    /\ exit_status' = 1
    /\ UNCHANGED <<gvars, tree, files, idx, log, stdout, tvars, fvars, rvars>>

\* the for loop is exhausted and main returns
MainReturn ==
    /\ m_pc = "loop"
    /\ idx > Len(files)
    /\ m_pc' = "exited"
    /\ exit_status' = 0
    /\ UNCHANGED <<gvars, tree, files, idx, log, stdout, tvars, fvars, rvars>>

(***************************************************************************)
(* Specifications: one per component, the rest of the state held idle.     *)
(***************************************************************************)
InitTrunc ==
    /\ t_pc = "start"
    /\ \/ s \in ShortStrs /\ max_width \in Budgets
       \/ s \in LongStrs /\ max_width = MAX_VALUE_WIDTH
    /\ out = <<>> /\ out2 = <<>>
    /\ f_pc = "idle" /\ obj = NoneScalar /\ stack = <<>>
    /\ yielded = <<>> /\ pushed = <<>> /\ popped = <<>>
    /\ r_pc = "idle" /\ loaded = NoneScalar /\ rows = <<>>
    /\ g_pc = "idle" /\ cwd = <<>> /\ marker = <<>> /\ root = <<>>
    /\ m_pc = "idle" /\ tree = <<>> /\ files = <<>> /\ idx = 0
    /\ log = <<>> /\ stdout = <<>> /\ exit_status = 0

InitFlatten ==
    /\ t_pc = "idle" /\ s = <<>> /\ max_width = MAX_VALUE_WIDTH /\ out = <<>> /\ out2 = <<>>
    /\ f_pc = "call"
    /\ obj \in Trees
    /\ stack = <<>> /\ yielded = <<>> /\ pushed = <<>> /\ popped = <<>>
    /\ r_pc = "idle" /\ loaded = NoneScalar /\ rows = <<>>
    /\ g_pc = "idle" /\ cwd = <<>> /\ marker = <<>> /\ root = <<>>
    /\ m_pc = "idle" /\ tree = <<>> /\ files = <<>> /\ idx = 0
    /\ log = <<>> /\ stdout = <<>> /\ exit_status = 0

InitReport ==
    /\ t_pc = "idle" /\ s = <<>> /\ max_width = MAX_VALUE_WIDTH /\ out = <<>> /\ out2 = <<>>
    /\ f_pc = "idle" /\ obj = NoneScalar /\ stack = <<>>
    /\ yielded = <<>> /\ pushed = <<>> /\ popped = <<>>
    /\ r_pc = "start"
    /\ loaded \in Loadable
    /\ rows = <<>>
    /\ g_pc = "idle" /\ cwd = <<>> /\ marker = <<>> /\ root = <<>>
    /\ m_pc = "idle" /\ tree = <<>> /\ files = <<>> /\ idx = 0
    /\ log = <<>> /\ stdout = <<>> /\ exit_status = 0

InitRoot ==
    /\ t_pc = "idle" /\ s = <<>> /\ max_width = MAX_VALUE_WIDTH /\ out = <<>> /\ out2 = <<>>
    /\ f_pc = "idle" /\ obj = NoneScalar /\ stack = <<>>
    /\ yielded = <<>> /\ pushed = <<>> /\ popped = <<>>
    /\ r_pc = "idle" /\ loaded = NoneScalar /\ rows = <<>>
    /\ g_pc = "start"
    /\ cwd \in Dirs
    /\ marker \in MarkerMaps(Dirs, MaxMarkers)
    /\ root = <<>>
    /\ m_pc = "idle" /\ tree = <<>> /\ files = <<>> /\ idx = 0
    /\ log = <<>> /\ stdout = <<>> /\ exit_status = 0

InitMain ==
    /\ t_pc = "idle" /\ s = <<>> /\ max_width = MAX_VALUE_WIDTH /\ out = <<>> /\ out2 = <<>>
    /\ f_pc = "idle" /\ obj = NoneScalar /\ stack = <<>>
    /\ yielded = <<>> /\ pushed = <<>> /\ popped = <<>>
    /\ r_pc = "idle" /\ loaded = NoneScalar /\ rows = <<>>
    /\ g_pc = "idle"
    /\ cwd \in MainDirs
    /\ marker \in MarkerMaps(MainDirs, 1)
    /\ root = <<>>
    /\ m_pc = "start"
    /\ tree \in FileTrees
    /\ files = <<>> /\ idx = 0
    /\ log = <<>> /\ stdout = <<>> /\ exit_status = 0

TNext == Truncate \/ TruncateAgain
FNext == FlattenCall \/ FlattenDescend \/ FlattenYield \/ FlattenReturn
RNext == TabulateFile \/ TabulateFileExit

SpecTrunc == InitTrunc /\ [][TNext]_vars
SpecFlatten == InitFlatten /\ [][FNext]_vars
\* the consumer (the for loop of tabulate_file) drains the generator
SpecFlattenLive == SpecFlatten /\ WF_vars(FNext)
SpecReport == InitReport /\ [][RNext]_vars
GNext == FindProjectRoot \/ FindProjectRootExit
SpecRoot == InitRoot /\ [][GNext]_vars
MNext ==
    \/ MainRootFound \/ MainRootMissing \/ MainDiscover \/ MainNoFiles
    \/ MainTabulate \/ MainParseFailure \/ MainOpenDirectory \/ MainReturn
SpecMain == InitMain /\ [][MNext]_vars

\* every component at once: a behaviour exercises one of them
Init == InitTrunc \/ InitFlatten \/ InitReport \/ InitRoot \/ InitMain
Next == TNext \/ FNext \/ RNext \/ GNext \/ MNext
Spec == Init /\ [][Next]_vars

(***************************************************************************)
(* Properties of truncate_display.                                         *)
(***************************************************************************)
EndsWithEllipsis(str) ==
    /\ Len(str) >= 3
    /\ SubSeq(str, Len(str) - 2, Len(str)) = Ellipsis

DoesNotFit == wcswidth(s) > max_width

C4_FirstCharAndSmallBudget ==
    (t_pc # "start" /\ DoesNotFit) =>
        /\ (s # <<>> /\ wcswidth(<<s[1]>>) > max_width - 3 /\ max_width >= 3) => out = Ellipsis
        /\ max_width < 3 => out = <<>>
        /\ max_width >= 0 => wcswidth(out) <= max_width

\* C5: truncating twice with the same budget gives what truncating once
\* gives, and a string that already fits is returned unchanged.
C5_Idempotent ==
    /\ t_pc = "twice" => out2 = out
    /\ (t_pc # "start" /\ ~DoesNotFit) => out = s

C5_Witness ==
    /\ t_pc = "twice" /\ DoesNotFit /\ max_width >= 3
    /\ out # s /\ Len(out) > 3 /\ SumWidth(out) = max_width

(***************************************************************************)
(* Properties of flatten.                                                  *)
(***************************************************************************)
\* the segment leading to the i-th child of a container
SegOf(node, i) == IF IsDict(node) THEN KeySeg(node.keys[i]) ELSE IndexSeg(i - 1)

\* addresses (key paths) of all nodes of a tree, the root being <<>>
RECURSIVE Addrs(_)
Addrs(node) ==
    {<<>>} \cup UNION {{<<SegOf(node, i)>> \o a : a \in Addrs(node.items[i])}
                       : i \in 1..Len(node.items)}

RECURSIVE NodeAt(_, _)
NodeAt(node, pth) ==
    IF pth = <<>>
    THEN node
    ELSE LET i == CHOOSE j \in 1..Len(node.items) : SegOf(node, j) = Head(pth)
         IN  NodeAt(node.items[i], Tail(pth))

LeafAddrs(node) == {a \in Addrs(node) : ~IsContainer(NodeAt(node, a))}

Count(seq, x) == Cardinality({i \in 1..Len(seq) : seq[i] = x})

\* C1: flatten yields exactly one entry per leaf, the entry being the path
\* from the root to the leaf and the leaf's value; empty containers yield
\* nothing.
C1_OneEntryPerLeaf ==
    f_pc = "done" =>
        /\ \A a \in LeafAddrs(obj) :
              Count(yielded, [pth |-> a, value |-> NodeAt(obj, a)]) = 1
        /\ Len(yielded) = Cardinality(LeafAddrs(obj))

C1_Witness ==
    /\ f_pc = "done"
    /\ Len(yielded) = 1
    /\ Len(yielded[1].pth) = 2
    /\ \E a \in Addrs(obj) : a # <<>> /\ IsContainer(NodeAt(obj, a)) /\ NodeAt(obj, a).items = <<>>

\* C9: the work-list eventually becomes empty and the generator finishes,
\* every node of the tree having been pushed exactly once and popped
\* exactly once.
C9_Terminates ==
    <>(/\ f_pc = "done"
       /\ stack = <<>>
       /\ Len(pushed) = Cardinality(Addrs(obj))
       /\ Len(popped) = Cardinality(Addrs(obj))
       /\ \A a \in Addrs(obj) : Count(pushed, a) = 1 /\ Count(popped, a) = 1)

C9_Witness ==
    /\ f_pc = "done"
    /\ Len(popped) = MaxNodes
    /\ \E a \in Addrs(obj) : Len(a) = MaxNodes - 1

\* left-to-right recursive descent: the leaves in document order
RECURSIVE DocOrder(_, _)
RECURSIVE DocOrderFrom(_, _, _)
DocOrderFrom(node, pth, i) ==
    IF i > Len(node.items)
    THEN <<>>
    ELSE DocOrder(node.items[i], pth \o <<SegOf(node, i)>>) \o DocOrderFrom(node, pth, i + 1)
DocOrder(node, pth) ==
    IF IsContainer(node)
    THEN DocOrderFrom(node, pth, 1)
    ELSE <<[pth |-> pth, value |-> node]>>

Reverse(seq) == [i \in 1..Len(seq) |-> seq[Len(seq) + 1 - i]]

\* C10: the entries are emitted in exactly the reverse of document order.
C10_ReverseDocumentOrder ==
    f_pc = "done" => yielded = Reverse(DocOrder(obj, <<>>))

C10_Witness ==
    /\ f_pc = "done"
    /\ Len(yielded) = 2
    /\ Len(obj.items) = 2
    /\ Len(obj.items[1].items) = 1
    /\ Len(yielded[1].pth) = 1
    /\ Len(yielded[2].pth) = 2
    /\ yielded # DocOrder(obj, <<>>)

(***************************************************************************)
(* Properties of the report of one file.                                   *)
(***************************************************************************)
IsScalarValue(node) == node.kind = "scalar" /\ node # NoneScalar

\* C2: a parsed root that is a scalar gives exactly one row, whose key path
\* is "(root)"; a null root gives zero rows.
C2_ScalarRootOneRow ==
    r_pc = "printed" =>
        /\ IsScalarValue(loaded) => (Len(rows) = 1 /\ rows[1].key_path = RootLiteral)
        /\ loaded = NoneScalar => rows = <<>>

(***************************************************************************)
(* Properties of the root locator.                                         *)
(***************************************************************************)
HoldsMarkerFile(d) == d \in DOMAIN marker /\ marker[d] = "file"
Ancestors(start) == {SubSeq(start, 1, n) : n \in 0..Len(start)}

\* C6: the locator returns the directory closest to the start, among the
\* start and its parents, that directly holds a regular file named by the
\* marker; with the marker file at exactly one ancestor level that level is
\* returned from every start beneath it; a directory named like the marker
\* never qualifies.
C6_NearestMarkerFile ==
    /\ g_pc = "found" =>
          /\ root \in Ancestors(cwd)
          /\ HoldsMarkerFile(root)
          /\ \A d \in Ancestors(cwd) : Len(d) > Len(root) => ~HoldsMarkerFile(d)
          /\ \A d \in Dirs : {e \in Ancestors(cwd) : HoldsMarkerFile(e)} = {d} => root = d
    /\ g_pc = "exit" => \A d \in Ancestors(cwd) : ~HoldsMarkerFile(d)

C6_Witness ==
    /\ g_pc = "found"
    /\ Len(cwd) = 2
    /\ root = <<>>
    /\ SubSeq(cwd, 1, 1) \in DOMAIN marker
    /\ marker[SubSeq(cwd, 1, 1)] = "dir"

(***************************************************************************)
(* Properties of a whole run.                                              *)
(***************************************************************************)
HasRoot == \E d \in Ancestors(cwd) : HoldsMarkerFile(d)

\* the entries beneath the root whose name ends in .yaml or .yml
YamlBeneath ==
    {q \in DOMAIN tree :
        /\ IsPrefix(root, q) /\ Len(q) > Len(root)
        /\ EndsWith(q[Len(q)], YamlSuffix) \/ EndsWith(q[Len(q)], YmlSuffix)}

PrintedAt(q) == {i \in 1..Len(stdout) : stdout[i].path = q}

\* C7: when the root is found and every discovered file parses, every file
\* beneath the root named *.yaml or *.yml is reported exactly once, in
\* ascending order of path, each table printed before the next file is
\* opened, and nothing else is reported.
C7_EveryFileOnceInOrder ==
    (/\ m_pc = "exited"
     /\ HasRoot
     /\ YamlBeneath # {}
     /\ \A q \in YamlBeneath : tree[q] = GoodFile)
    => /\ exit_status = 0
       /\ Len(stdout) = Cardinality(YamlBeneath)
       /\ \A q \in YamlBeneath : Cardinality(PrintedAt(q)) = 1
       /\ \A i, j \in 1..Len(stdout) : i < j => PathLess(stdout[i].path, stdout[j].path)
       /\ Len(log) = 2 * Len(stdout)
       /\ \A i \in 1..Len(stdout) :
             /\ log[2 * i - 1] = Opened(stdout[i].path)
             /\ log[2 * i] = Printed(stdout[i].path)

C7_Witness ==
    /\ m_pc = "exited" /\ exit_status = 0
    /\ Len(stdout) = 2
    /\ EndsWith(stdout[1].path[Len(stdout[1].path)], YmlSuffix)
    /\ EndsWith(stdout[2].path[Len(stdout[2].path)], YamlSuffix)
    /\ Len(stdout[1].path) = Len(stdout[2].path)
    /\ Len(root) = 1 /\ Len(cwd) = 2

\* C8: marker not found, no matching file, or a parse failure ends the run
\* with a non-zero status and prints no table from then on: none at all in
\* the first two cases, exactly the tables of the files sorted before the
\* failing one in the third.
C8_FatalStopsReport ==
    m_pc = "exited" =>
        /\ ~HasRoot => (exit_status # 0 /\ stdout = <<>> /\ log = <<>>)
        /\ (HasRoot /\ YamlBeneath = {}) => (exit_status # 0 /\ stdout = <<>> /\ log = <<>>)
        /\ \A f \in YamlBeneath :
              (/\ HasRoot
               /\ tree[f] = BadFile
               /\ \A q \in YamlBeneath : PathLess(q, f) => tree[q] = GoodFile)
              => /\ exit_status # 0
                 /\ Len(stdout) = Cardinality({q \in YamlBeneath : PathLess(q, f)})
                 /\ \A q \in YamlBeneath : PathLess(q, f) => Cardinality(PrintedAt(q)) = 1
                 /\ log[Len(log)] = Opened(f)

C8_Witness ==
    /\ m_pc = "exited" /\ exit_status = 1
    /\ Len(stdout) = 1
    /\ Len(log) = 3
    /\ log[3].event = "open"
    /\ tree[log[3].path] = BadFile

====
